---- MODULE Spec2Model ----
(***************************************************************************)
(* UC ORB Showcase read model, as documented in docs/: the Query Service   *)
(* (FastAPI handlers list_repositories / get_repository over the          *)
(* showcase_view table) and the client pipeline (Zustand store, the        *)
(* filteredRepositories memo, the paginator).                              *)
(*                                                                         *)
(* Text is a sequence of one-character strings, so that f"{owner}/{repo}", *)
(* str.lower(), trim() and ILIKE are computed, not assumed.  SQL NULL /    *)
(* Python None / JS null for a text value is the one-element sequence NULL,*)
(* which no text equals (its element is not a single character).           *)
(***************************************************************************)
EXTENDS Integers, Sequences, FiniteSets, TLC

VARIABLES
    db,                 \* rows of showcase_view (set of Repository rows)
    pc,                 \* Query Service: "idle" | "done" (a response is out)
    request,            \* the request being answered
    response,           \* [status, body, detail] of the last request
    open_sessions,      \* Query Service: the storage sessions that are open
    fetchedPages,       \* API caller: the bodies of the pages fetched so far
    repositories,       \* client: data of useQuery(['repositories']), or UNDEFINED
    store_repositories, \* store.repositories
    query,              \* client: the React Query cache entry under observation
    searchTerm,         \* store.searchTerm
    universitiesSelected,
    languagesSelected,
    licensesSelected,
    ownersSelected,
    topicsSelected,
    page,               \* useState(1)
    pageSize            \* useState(20)

serverVars == <<db, pc, request, response, open_sessions>>
clientVars == <<repositories, store_repositories, query, searchTerm, universitiesSelected, languagesSelected,
                licensesSelected, ownersSelected, topicsSelected, page, pageSize>>
vars == <<db, pc, request, response, open_sessions, fetchedPages, repositories, store_repositories,
          query, searchTerm, universitiesSelected,
          languagesSelected, licensesSelected, ownersSelected, topicsSelected,
          page, pageSize>>

(***************************************************************************)
(* Text                                                                    *)
(***************************************************************************)
NULL == <<"<null>">>
NoInt == <<>>                      \* an absent optional integer; <<n>> is n
UNDEFINED == <<[undefined |-> TRUE]>>   \* a record list that is not there (JS undefined)

T_uc_berkeley == <<"u", "c", "-", "b", "e", "r", "k", "e", "l", "e", "y">>
T_example_repo == <<"e", "x", "a", "m", "p", "l", "e", "-", "r", "e", "p", "o">>
T_ucla == <<"u", "c", "l", "a">>
T_ucsd == <<"u", "c", "s", "d">>
T_sample_project == <<"s", "a", "m", "p", "l", "e", "-", "p", "r", "o", "j", "e", "c", "t">>
T_does_not_exist == <<"d", "o", "e", "s", "-", "n", "o", "t", "-", "e", "x", "i", "s", "t">>
T_draft == <<"d", "r", "a", "f", "t">>
T_p9 == <<"p", "9">>
T_p10 == <<"p", "1", "0">>
T_desc_example == <<"E", "x", "a", "m", "p", "l", "e", " ", "r", "e", "p", "o", "s", "i", "t", "o", "r", "y", " ", "f", "o", "r", " ", "t", "e", "s", "t", "i", "n", "g">>
T_desc_sample == <<"S", "a", "m", "p", "l", "e", " ", "p", "r", "o", "j", "e", "c", "t", " ", "f", "r", "o", "m", " ", "U", "C", "L", "A">>
T_UC_Berkeley == <<"U", "C", " ", "B", "e", "r", "k", "e", "l", "e", "y">>
T_UCLA == <<"U", "C", "L", "A">>
T_UCSD == <<"U", "C", "S", "D">>
T_Python == <<"P", "y", "t", "h", "o", "n">>
T_JavaScript == <<"J", "a", "v", "a", "S", "c", "r", "i", "p", "t">>
T_MIT == <<"M", "I", "T">>
T_ML == <<"M", "L">>
T_app == <<"a", "p", "p">>
T_lib == <<"l", "i", "b">>
T_empty == <<>>

LowerOf == ("A" :> "a") @@ ("B" :> "b") @@ ("C" :> "c") @@ ("D" :> "d") @@ ("E" :> "e") @@ ("F" :> "f") @@ ("G" :> "g") @@ ("H" :> "h") @@ ("I" :> "i") @@ ("J" :> "j") @@ ("K" :> "k") @@ ("L" :> "l") @@ ("M" :> "m") @@ ("N" :> "n") @@ ("O" :> "o") @@ ("P" :> "p") @@ ("Q" :> "q") @@ ("R" :> "r") @@ ("S" :> "s") @@ ("T" :> "t") @@ ("U" :> "u") @@ ("V" :> "v") @@ ("W" :> "w") @@ ("X" :> "x") @@ ("Y" :> "y") @@ ("Z" :> "z")

\* str.lower() / the case folding of ILIKE, one character
LowerChar(c) == IF c \in DOMAIN LowerOf THEN LowerOf[c] ELSE c

\* q.lower()
Lower(t) == [i \in 1..Len(t) |-> LowerChar(t[i])]

\* Python truthiness of an optional str: None and "" are falsy
Truthy(t) == t # NULL /\ t # <<>>

\* f"{owner}/{repo}"
FullNameOf(owner, repo) == owner \o <<"/">> \o repo

\* PostgreSQL LIKE on folded characters: % is any run, _ any one character
RECURSIVE LikeFrom(_, _, _, _)
LikeFrom(t, i, p, j) ==
    IF j > Len(p) THEN i > Len(t)
    ELSE IF p[j] = "%" THEN \E k \in i..(Len(t) + 1) : LikeFrom(t, k, p, j + 1)
    ELSE /\ i <= Len(t)
         /\ (p[j] = "_" \/ LowerChar(p[j]) = LowerChar(t[i]))
         /\ LikeFrom(t, i + 1, p, j + 1)

\* column.ilike(pattern): NULL ILIKE p is NULL, which WHERE drops
ilike(col, pattern) == col # NULL /\ LikeFrom(col, 1, pattern, 1)

\* rank of a character in the collation, digits only (the count columns)
CharRank(c) ==
    CASE c = "0" -> 0 [] c = "1" -> 1 [] c = "2" -> 2 [] c = "3" -> 3 [] c = "4" -> 4
      [] c = "5" -> 5 [] c = "6" -> 6 [] c = "7" -> 7 [] c = "8" -> 8 [] c = "9" -> 9
      [] OTHER -> 10

\* a < b as VARCHAR values (character by character; a proper prefix is smaller)
RECURSIVE TextLess(_, _, _)
TextLess(a, b, i) ==
    IF i > Len(b) THEN FALSE
    ELSE IF i > Len(a) THEN TRUE
    ELSE IF CharRank(a[i]) # CharRank(b[i]) THEN CharRank(a[i]) < CharRank(b[i])
    ELSE TextLess(a, b, i + 1)

(***************************************************************************)
(* Storage: the showcase_view rows                                         *)
(***************************************************************************)
\* approved BOOLEAN: TRUE, FALSE or NULL
ApprovedValues == {"true", "false", "null"}

Repository(full_name, description, short_description, university, license, owner, language, topic_area_ai, stargazers_count, forks_count, created_at, approved) ==
    [full_name |-> full_name, description |-> description,
     short_description |-> short_description, university |-> university,
     license |-> license, owner |-> owner, language |-> language,
     topic_area_ai |-> topic_area_ai, stargazers_count |-> stargazers_count,
     forks_count |-> forks_count, created_at |-> created_at, approved |-> approved]

\* the two sample rows of the development database
RowExample ==
    Repository(FullNameOf(T_uc_berkeley, T_example_repo), T_desc_example, NULL,
               T_UC_Berkeley, NULL, NULL, T_Python, NULL, NULL, NULL, NULL, "true")
RowSample ==
    Repository(FullNameOf(T_ucla, T_sample_project), T_desc_sample, NULL,
               T_UCLA, NULL, NULL, T_JavaScript, NULL, NULL, NULL, NULL, "true")
\* a row that is not cleared for display
RowDraft ==
    Repository(FullNameOf(T_ucla, T_draft), T_draft, T_draft,
               T_UCLA, T_MIT, T_ucla, T_Python, T_ML, <<"1", "0">>, <<"1", "0">>,
               <<"2", "0", "2", "2", "0", "3", "0", "1">>, "false")
\* rows with counts "9" and "10", empty-string and NULL categories
RowP9 ==
    Repository(FullNameOf(T_ucsd, T_p9), T_app, T_lib,
               T_UCSD, T_MIT, T_empty, T_Python, T_ML, <<"9">>, <<"9">>,
               <<"2", "0", "2", "3", "0", "1", "1", "5">>, "true")
RowP10 ==
    Repository(FullNameOf(T_ucsd, T_p10), NULL, NULL,
               NULL, T_empty, T_ucsd, T_empty, NULL, <<"1", "0">>, <<"9">>,
               <<"2", "0", "2", "4", "0", "1", "0", "1">>, "true")
\* a row whose approved flag was never set
RowUnset ==
    Repository(FullNameOf(T_ucsd, T_draft), T_app, T_app,
               T_UC_Berkeley, T_MIT, T_ucsd, T_Python, T_ML, <<"9">>, <<"1", "0">>,
               <<"2", "0", "2", "3", "0", "1", "1", "5">>, "null")

\* full_name is the primary key: the rows of a database have distinct names
Pool == {RowExample, RowSample, RowDraft, RowP9, RowP10, RowUnset}

\* the end-to-end scenario: two approved rows and one unapproved row
ScenarioDb == {RowExample, RowSample, RowDraft}

Databases == SUBSET Pool

(***************************************************************************)
(* Query Service: response shape                                           *)
(***************************************************************************)
\* datetime.isoformat() of a stored timestamp (digits YYYYMMDD, midnight)
isoformat(ts) ==
    SubSeq(ts, 1, 4) \o <<"-">> \o SubSeq(ts, 5, 6) \o <<"-">> \o SubSeq(ts, 7, 8)
        \o <<"T", "0", "0", ":", "0", "0", ":", "0", "0">>

\* repo.dict(), description := short_description, datetimes to ISO strings,
\* RepositoryResponse(**repo_dict) (which has no approved / short_description)
RepositoryResponse(repo) ==
    [full_name |-> repo.full_name,
     description |-> repo.short_description,
     university |-> repo.university, license |-> repo.license, owner |-> repo.owner,
     language |-> repo.language, topic_area_ai |-> repo.topic_area_ai,
     stargazers_count |-> repo.stargazers_count, forks_count |-> repo.forks_count,
     created_at |-> IF repo.created_at = NULL THEN NULL ELSE isoformat(repo.created_at)]

Ok(body) == [status |-> 200, body |-> body, detail |-> "OK"]
HTTPException(status, detail) == [status |-> status, body |-> <<>>, detail |-> detail]
NoResponse == [status |-> 0, body |-> <<>>, detail |-> ""]
NoRequest == [handler |-> "none"]

\* variant: session = Session(...); yield session; session.close(), whose
\* close is reached only when the handler returns
get_session_close_on_return(open, outcome) ==
    IF outcome.status = 200 THEN (open + 1) - 1 ELSE open + 1

\* Depends(get_session): "with Session(...) as session: yield session" opens
\* a session for the request, and the with block closes it when the request
\* is over, whether the handler returned or raised
get_session(open, outcome) == (open + 1) - 1

(***************************************************************************)
(* Query Service: GET /repositories                                        *)
(***************************************************************************)
\* Query(None, ge=1, le=100) and Query(None, ge=0)
LimitMin == 1
LimitMax == 100
OffsetMin == 0

\* the request bound: how many parameters of one request differ from their default
MaxParams == 2

DefaultRequest ==
    [q |-> NULL, university |-> {}, language |-> {}, license |-> {}, owner |-> {},
     topic_area_ai |-> {}, sort |-> "stargazers_count", order |-> "desc",
     limit |-> NoInt, offset |-> NoInt]

ParamNames == DOMAIN DefaultRequest

\* a repeated query parameter is a list; an absent one (None) and an empty one
\* take the same branch of `if university:`, and both are the empty set here
AllListRequests ==
    [q : {NULL, <<>>, <<"A">>, <<"_">>},
     university : {{}, {T_UC_Berkeley}, {T_UC_Berkeley, T_UCLA}},
     language : {{}, {T_Python}, {T_empty, T_JavaScript}},
     license : {{}, {T_MIT}},
     owner : {{}, {T_empty}},
     topic_area_ai : {{}, {T_ML}},
     sort : {"stargazers_count", "forks_count", "created_at", "invalid_field"},
     order : {"desc", "asc", "up"},
     limit : {NoInt, <<0>>, <<1>>, <<2>>, <<LimitMax>>, <<LimitMax + 1>>},
     offset : {NoInt, <<-1>>, <<0>>, <<1>>, <<2>>}]

NonDefault(req) == {p \in ParamNames : req[p] # DefaultRequest[p]}

ListRequests == {req \in AllListRequests : Cardinality(NonDefault(req)) <= MaxParams}

\* variant: the lower bound of limit written ge=0
ValidationErrorFromZero(req) ==
    \/ req.limit # NoInt /\ (req.limit[1] < 0 \/ req.limit[1] > LimitMax)
    \/ req.offset # NoInt /\ req.offset[1] < OffsetMin

\* FastAPI's parameter validation, before the handler body runs
ValidationError(req) ==
    \/ req.limit # NoInt /\ (req.limit[1] < LimitMin \/ req.limit[1] > LimitMax)
    \/ req.offset # NoInt /\ req.offset[1] < OffsetMin

\* variant: the filter applied after the fetch, a missing value let through
in_OrMissing(col, values) == col = NULL \/ col \in values

\* column.in_(values): NULL IN (...) is NULL, which WHERE drops
in_(col, values) == col # NULL /\ col \in values

\* variant: the base query without the approval filter
BaseQueryUnfiltered(rows) == rows

\* select(Repository).where(Repository.approved == True)
BaseQuery(rows) == {r \in rows : r.approved = "true"}

\* variant: the search over full_name alone
SearchFilterNameOnly(rows, q) ==
    IF Truthy(q)
    THEN {r \in rows : ilike(r.full_name, <<"%">> \o Lower(q) \o <<"%">>)}
    ELSE rows

\* if q: where(full_name ILIKE %q.lower()% OR description ILIKE %q.lower()%)
SearchFilter(rows, q) ==
    IF Truthy(q)
    THEN LET search == <<"%">> \o Lower(q) \o <<"%">>
         IN  {r \in rows : ilike(r.full_name, search) \/ ilike(r.description, search)}
    ELSE rows

\* if <values>: where(column.in_(<values>)), for one column
CategoryFilter(rows, column, values) ==
    IF values # {} THEN {r \in rows : in_(r[column], values)} ELSE rows

CategoryFilters(rows, req) ==
    CategoryFilter(
      CategoryFilter(
        CategoryFilter(
          CategoryFilter(
            CategoryFilter(rows, "university", req.university),
            "language", req.language),
          "license", req.license),
        "owner", req.owner),
      "topic_area_ai", req.topic_area_ai)

\* variant: the fallback of the lookup is another column of the map
SortFieldFallbackForks(sort) ==
    IF sort \in {"stargazers_count", "forks_count", "created_at"}
    THEN sort ELSE "forks_count"

\* sort_map.get(sort, Repository.stargazers_count)
SortField(sort) ==
    IF sort \in {"stargazers_count", "forks_count", "created_at"}
    THEN sort ELSE "stargazers_count"

\* key a sorts strictly before key b under ORDER BY column ASC (NULLS LAST) or
\* DESC (NULLS FIRST); the three sort columns are VARCHAR / fixed-width timestamp text
AscBefore(a, b) == a # NULL /\ (b = NULL \/ TextLess(a, b, 1))
Before(a, b, dir) == IF dir = "asc" THEN AscBefore(a, b) ELSE AscBefore(b, a)

\* every sequence of the rows of a set
RECURSIVE Arrangements(_)
Arrangements(rows) ==
    IF rows = {} THEN {<<>>}
    ELSE UNION {{<<m>> \o t : t \in Arrangements(rows \ {m})} : m \in rows}

\* ranked is the set of <<rank, row>>, the rank of a row being the number of
\* distinct keys that sort before its own: the rows rank by rank, the rows of one
\* rank (a tie on the sort column) in any order
RECURSIVE Groups(_, _, _)
Groups(ranked, lo, hi) ==
    IF lo > hi THEN {<<>>}
    ELSE IF lo = hi THEN Arrangements({p[2] : p \in {q \in ranked : q[1] = lo}})
    ELSE LET mid == (lo + hi) \div 2
             left == Groups({q \in ranked : q[1] <= mid}, lo, mid)
             right == Groups({q \in ranked : q[1] > mid}, mid + 1, hi)
         IN  {a \o b : a \in left, b \in right}

\* every sequence of the rows that respects the ordering; with no ORDER BY
\* (dir = "none") the rows come in any order
Orderings(rows, ordering) ==
    IF ordering.dir = "none" THEN Arrangements(rows)
    ELSE LET K == {r[ordering.column] : r \in rows}
             ranked == {<<Cardinality({j \in K : Before(j, r[ordering.column], ordering.dir)}), r>> :
                          r \in rows}
         IN  Groups(ranked, 0, Cardinality(K) - 1)

\* if order == "asc": order_by(sort_field.asc()) else: order_by(sort_field.desc())
OrderBy(sort, order) ==
    [column |-> SortField(sort), dir |-> IF order = "asc" THEN "asc" ELSE "desc"]

\* if limit: .limit(limit); if offset: .offset(offset)   (OFFSET, then LIMIT)
Paginate(seq, limit, offset) ==
    LET skip == IF offset # NoInt /\ offset[1] # 0 THEN offset[1] ELSE 0
        rest == SubSeq(seq, skip + 1, Len(seq))
    IN  IF limit # NoInt /\ limit[1] # 0
        THEN SubSeq(rest, 1, IF limit[1] < Len(rest) THEN limit[1] ELSE Len(rest))
        ELSE rest

Transform(seq) == [i \in 1..Len(seq) |-> RepositoryResponse(seq[i])]

\* the responses list_repositories can produce for a request
ListResponses(rows, req) ==
    IF ValidationError(req)
    THEN {HTTPException(422, "Validation Error")}
    ELSE {Ok(Transform(Paginate(rs, req.limit, req.offset))) :
            rs \in Orderings(CategoryFilters(SearchFilter(BaseQuery(rows), req.q), req),
                             OrderBy(req.sort, req.order))}

list_repositories(req) ==
    /\ pc = "idle"
    /\ request' = [handler |-> "list_repositories", params |-> req]
    /\ response' \in ListResponses(db, req)
    /\ pc' = "done"
    /\ open_sessions' = get_session(open_sessions, response')
    /\ UNCHANGED <<db, fetchedPages, clientVars>>

\* the "Optimize Queries" listing: two filters, no ORDER BY, a fixed LIMIT
QueryCap == 1000

OptimizedRequests ==
    [university : {{}, {T_UC_Berkeley}, {T_UC_Berkeley, T_UCLA}},
     language : {{}, {T_Python}, {T_empty, T_JavaScript}}]

OptimizedResponses(rows, req) ==
    {Ok(Paginate(rs, <<QueryCap>>, NoInt)) :
       rs \in Orderings(CategoryFilter(CategoryFilter(BaseQuery(rows),
                                                      "university", req.university),
                                       "language", req.language),
                        [column |-> "full_name", dir |-> "none"])}

list_repositories_optimized(req) ==
    /\ pc = "idle"
    /\ request' = [handler |-> "list_repositories_optimized", params |-> req]
    /\ response' \in OptimizedResponses(db, req)
    /\ pc' = "done"
    /\ open_sessions' = get_session(open_sessions, response')
    /\ UNCHANGED <<db, fetchedPages, clientVars>>

(***************************************************************************)
(* Query Service: GET /repositories/{owner}/{repo}                         *)
(***************************************************************************)
PathOwners == {T_uc_berkeley, T_ucla, T_ucsd, T_empty}
PathRepos == {T_example_repo, T_sample_project, T_draft, T_p9, T_does_not_exist, T_empty}

\* session.exec(statement).first(): the rows the statement selects, or none
\* (full_name is the primary key, so at most one row matches)
First(rows) == IF rows = {} THEN <<>> ELSE <<CHOOSE r \in rows : TRUE>>

\* the Repositories API listing
GetResponse(rows, owner, repo) ==
    LET full_name == FullNameOf(owner, repo)
        repository == First({r \in rows : r.full_name = full_name /\ r.approved = "true"})
    IN  IF owner = <<>> \/ repo = <<>>
        THEN HTTPException(400, "Owner and repo are required")
        ELSE IF repository = <<>>
        THEN HTTPException(404, "Repository not found")
        ELSE Ok(<<RepositoryResponse(repository[1])>>)

get_repository(owner, repo) ==
    /\ pc = "idle"
    /\ request' = [handler |-> "get_repository",
                   params |-> [owner |-> owner, repo |-> repo]]
    /\ response' = GetResponse(db, owner, repo)
    /\ pc' = "done"
    /\ open_sessions' = get_session(open_sessions, response')
    /\ UNCHANGED <<db, fetchedPages, clientVars>>

\* the "Add Data Validation" listing: the row is looked up by full_name alone
\* and returned as stored
ValidatedGetResponse(rows, owner, repo) ==
    LET full_name == FullNameOf(owner, repo)
        repository == First({r \in rows : r.full_name = full_name})
    IN  IF owner = <<>> \/ repo = <<>>
        THEN HTTPException(400, "Owner and repo are required")
        ELSE IF repository = <<>>
        THEN HTTPException(404, "Repository not found")
        ELSE Ok(<<repository[1]>>)

\* session.exec(statement) raises (the storage is unreachable, the statement
\* fails): the exception leaves the handler and the request ends with a 500
get_repository_storage_failure(owner, repo) ==
    /\ pc = "idle"
    /\ owner # <<>> /\ repo # <<>>
    /\ request' = [handler |-> "get_repository",
                   params |-> [owner |-> owner, repo |-> repo]]
    /\ response' = HTTPException(500, "Internal Server Error")
    /\ pc' = "done"
    /\ open_sessions' = get_session(open_sessions, response')
    /\ UNCHANGED <<db, fetchedPages, clientVars>>

get_repository_validated(owner, repo) ==
    /\ pc = "idle"
    /\ request' = [handler |-> "get_repository_validated",
                   params |-> [owner |-> owner, repo |-> repo]]
    /\ response' = ValidatedGetResponse(db, owner, repo)
    /\ pc' = "done"
    /\ open_sessions' = get_session(open_sessions, response')
    /\ UNCHANGED <<db, fetchedPages, clientVars>>

(***************************************************************************)
(* Query Service: GET /universities, /languages, /licenses,                *)
(* /organizations, /topics (distinctValues(dimension) of the               *)
(* specification; the handlers are not among the documented listings)      *)
(***************************************************************************)
\* the characters of the catalogue's category values, in code-point order
Alphabet ==
    <<" ", "-", "/", "0", "1", "2", "3", "4", "5", "6", "7", "8", "9",
      "A", "B", "C", "D", "E", "F", "G", "H", "I", "J", "K", "L", "M", "N", "O", "P",
      "Q", "R", "S", "T", "U", "V", "W", "X", "Y", "Z", "_",
      "a", "b", "c", "d", "e", "f", "g", "h", "i", "j", "k", "l", "m", "n", "o", "p",
      "q", "r", "s", "t", "u", "v", "w", "x", "y", "z">>

CodePoint(c) == CHOOSE i \in 1..Len(Alphabet) : Alphabet[i] = c

\* a < b as strings (code point by code point; a proper prefix is smaller)
RECURSIVE StrLess(_, _, _)
StrLess(a, b, i) ==
    IF i > Len(b) THEN FALSE
    ELSE IF i > Len(a) THEN TRUE
    ELSE IF a[i] # b[i] THEN CodePoint(a[i]) < CodePoint(b[i])
    ELSE StrLess(a, b, i + 1)

\* sorted(values)
RECURSIVE Sorted(_)
Sorted(values) ==
    IF values = {} THEN <<>>
    ELSE LET least == CHOOSE m \in values : \A o \in values \ {m} : StrLess(m, o, 1)
         IN  <<least>> \o Sorted(values \ {least})

DimensionOf ==
    [universities |-> "university", languages |-> "language", licenses |-> "license",
     organizations |-> "owner", topics |-> "topic_area_ai"]

\* variant: the values of every stored row, approved or not
DistinctValuesAllRows(rows, dimension) ==
    Sorted({r[dimension] : r \in {m \in rows : m[dimension] # NULL}})

\* distinctValues(dimension): the values present among approved records,
\* deduplicated and sorted
DistinctValues(rows, dimension) ==
    Sorted({r[dimension] : r \in {m \in rows : m.approved = "true" /\ m[dimension] # NULL}})

distinct_values(endpoint) ==
    /\ pc = "idle"
    /\ request' = [handler |-> "distinct_values", params |-> [endpoint |-> endpoint]]
    /\ response' = Ok(DistinctValues(db, DimensionOf[endpoint]))
    /\ pc' = "done"
    /\ open_sessions' = get_session(open_sessions, response')
    /\ UNCHANGED <<db, fetchedPages, clientVars>>

\* the response has been sent; the service waits for the next request
Respond ==
    /\ pc = "done"
    /\ pc' = "idle"
    /\ request' = NoRequest
    /\ response' = NoResponse
    /\ UNCHANGED <<db, open_sessions, fetchedPages, clientVars>>

(***************************************************************************)
(* Client: initial state of the store and of the page component            *)
(***************************************************************************)
DefaultPageSize == 20

\* no query has been created in the cache
NoQuery == [key |-> "none"]

ClientInit ==
    /\ fetchedPages = <<>>
    /\ repositories = UNDEFINED
    /\ store_repositories = <<>>
    /\ query = NoQuery
    /\ searchTerm = <<>>
    /\ universitiesSelected = {}
    /\ languagesSelected = {}
    /\ licensesSelected = {}
    /\ ownersSelected = {}
    /\ topicsSelected = {}
    /\ page = 1
    /\ pageSize = DefaultPageSize

ServerInit ==
    /\ db \in Databases
    /\ pc = "idle"
    /\ request = NoRequest
    /\ response = NoResponse
    /\ open_sessions = 0

(***************************************************************************)
(* The Query Service over every database of the pool                       *)
(***************************************************************************)
Init == ServerInit /\ ClientInit

Next ==
    \/ \E req \in ListRequests : list_repositories(req)
    \/ \E req \in OptimizedRequests : list_repositories_optimized(req)
    \/ \E owner \in PathOwners, repo \in PathRepos : get_repository(owner, repo)
    \/ \E owner \in PathOwners, repo \in PathRepos : get_repository_validated(owner, repo)
    \/ \E endpoint \in DOMAIN DimensionOf : distinct_values(endpoint)
    \/ Respond

Spec == Init /\ [][Next]_vars

(***************************************************************************)
(* The Query Service over a catalogue larger than the documented maximum   *)
(* page: LimitMax + 1 approved rows bulk/1 .. bulk/101 with distinct counts *)
(***************************************************************************)
DigitOf(d) ==
    CASE d = 0 -> "0" [] d = 1 -> "1" [] d = 2 -> "2" [] d = 3 -> "3" [] d = 4 -> "4"
      [] d = 5 -> "5" [] d = 6 -> "6" [] d = 7 -> "7" [] d = 8 -> "8" [] OTHER -> "9"

\* str(n), n >= 0
RECURSIVE Str(_)
Str(n) == IF n < 10 THEN <<DigitOf(n)>> ELSE Str(n \div 10) \o <<DigitOf(n % 10)>>

BulkRow(i) ==
    Repository(<<"b", "u", "l", "k", "/">> \o Str(i), NULL, NULL, NULL, NULL, NULL,
               NULL, NULL, Str(i), Str(i), NULL, "true")

BulkDb == {BulkRow(i) : i \in 1..(LimitMax + 1)}

BulkRequests ==
    {[DefaultRequest EXCEPT !.limit = l, !.offset = o, !.sort = s, !.order = d] :
        l \in {NoInt, <<1>>, <<2>>, <<LimitMax>>},
        o \in {NoInt, <<0>>, <<1>>, <<2>>, <<LimitMax>>},
        s \in {"stargazers_count", "forks_count", "invalid_field"}, d \in {"desc", "asc"}}

InitBulk ==
    /\ db = BulkDb
    /\ pc = "idle"
    /\ request = NoRequest
    /\ response = NoResponse
    /\ open_sessions = 0
    /\ ClientInit

NextBulk ==
    \/ \E req \in BulkRequests : list_repositories(req)
    \/ Respond

SpecBulk == InitBulk /\ [][NextBulk]_vars

(***************************************************************************)
(* Client: the Filter Engine (filteredRepositories)                        *)
(***************************************************************************)
\* String.prototype.trim()
IsSpace(c) == c \in {" ", "\t", "\n"}
RECURSIVE TrimLeft(_)
TrimLeft(t) == IF t # <<>> /\ IsSpace(Head(t)) THEN TrimLeft(Tail(t)) ELSE t
RECURSIVE TrimRight(_)
TrimRight(t) ==
    IF t # <<>> /\ IsSpace(t[Len(t)]) THEN TrimRight(SubSeq(t, 1, Len(t) - 1)) ELSE t
trim(t) == TrimRight(TrimLeft(t))

\* variant: the filter without its length guard
FilterByUnguarded(result, field, selected) ==
    SelectSeq(result, LAMBDA r : Truthy(r[field]) /\ r[field] \in selected)

\* result.filter(r => r.<field> && <selected>.includes(r.<field>)), behind
\* if (<selected>.length > 0); a selected array is its set of values
FilterBy(result, field, selected) ==
    IF selected # {}
    THEN SelectSeq(result, LAMBDA r : Truthy(r[field]) /\ r[field] \in selected)
    ELSE result

\* the characters of s occur in t in this order (both folded to lower case)
RECURSIVE IsSubsequence(_, _, _, _)
IsSubsequence(s, i, t, j) ==
    IF i > Len(s) THEN TRUE
    ELSE IF j > Len(t) THEN FALSE
    ELSE IF LowerChar(s[i]) = LowerChar(t[j]) THEN IsSubsequence(s, i + 1, t, j + 1)
    ELSE IsSubsequence(s, i, t, j + 1)

FuzzyMatch(search, target) ==
    target # NULL /\ IsSubsequence(SelectSeq(search, LAMBDA c : ~IsSpace(c)), 1, target, 1)

\* limit: 50
FuzzyLimit == 50

\* fuzzysort.go(search, targets, {keys: ["full_name", "description"], threshold,
\* limit}).map(r => r.obj): the targets one of whose keys matches, at most `limit`
\* of them.  The library ranks the matches by its score; the rank is not modelled
\* (matches keep the order of the targets).
fuzzysort_go(search, targets, limit) ==
    LET matches == SelectSeq(targets, LAMBDA r : \/ FuzzyMatch(search, r.full_name)
                                                   \/ FuzzyMatch(search, r.description))
    IN  SubSeq(matches, 1, IF Len(matches) < limit THEN Len(matches) ELSE limit)

\* the stage shared by the listings: if (searchTerm.trim()) result = fuzzy...
FuzzySearch(result, term) ==
    IF trim(term) # <<>> THEN fuzzysort_go(term, result, FuzzyLimit) ELSE result

\* the Filtering Logic listing (five dimensions, then the search)
FilterEngine(repos, term, universities, languages, licenses, owners, topics) ==
    IF repos = UNDEFINED THEN <<>>
    ELSE FuzzySearch(
           FilterBy(
             FilterBy(
               FilterBy(
                 FilterBy(
                   FilterBy(repos, "university", universities),
                   "language", languages),
                 "license", licenses),
               "owner", owners),
             "topic_area_ai", topics),
           term)

filteredRepositories ==
    FilterEngine(repositories, searchTerm, universitiesSelected, languagesSelected,
                 licensesSelected, ownersSelected, topicsSelected)

\* the Client-Side Filtering listing of the component guide (university and
\* language, then the search)
FilterEngineGuide(repos, term, universities, languages) ==
    IF repos = UNDEFINED THEN <<>>
    ELSE FuzzySearch(FilterBy(FilterBy(repos, "university", universities),
                              "language", languages),
                     term)

filteredRepositoriesGuide ==
    FilterEngineGuide(repositories, searchTerm, universitiesSelected, languagesSelected)

(***************************************************************************)
(* Client: the Paginator                                                   *)
(***************************************************************************)
\* Array.prototype.slice(start, end)
Slice(items, start, end) ==
    LET n == Len(items)
        from == IF start < 0 THEN (IF n + start < 0 THEN 0 ELSE n + start)
                ELSE (IF start > n THEN n ELSE start)
        to == IF end < 0 THEN (IF n + end < 0 THEN 0 ELSE n + end)
              ELSE (IF end > n THEN n ELSE end)
    IN  IF from < to THEN SubSeq(items, from + 1, to) ELSE <<>>

\* Math.ceil(n / d), n >= 0, d >= 1
Ceil(n, d) == IF n % d = 0 THEN n \div d ELSE (n \div d) + 1

\* variant: the page count without Math.max(1, ...)
TotalPagesUnfloored(n, size) == Ceil(n, size)

\* Math.max(1, Math.ceil(totalItems / pageSize))
TotalPages(n, size) ==
    LET pages == Ceil(n, size) IN IF pages < 1 THEN 1 ELSE pages

\* variant: the slice with its end index included
PaginatorInclusiveEnd(items, p, size) == Slice(items, (p - 1) * size, p * size + 1)

\* variant: the page taken as a zero-based index
PaginatorZeroBased(items, p, size) == Slice(items, p * size, (p + 1) * size)

\* filteredRepositories.slice((page - 1) * pageSize, page * pageSize)
Paginator(items, p, size) == Slice(items, (p - 1) * size, p * size)

totalItems == Len(filteredRepositories)
totalPages == TotalPages(totalItems, pageSize)
pagedRepositories == Paginator(filteredRepositories, page, pageSize)

(***************************************************************************)
(* Client: page-number display                                             *)
(***************************************************************************)
PageToken(n) == [page |-> n]
Ellipsis(which) == [gap |-> which]

\* arr.filter((v, i, a) => a.indexOf(v) === i)
Dedupe(arr) ==
    LET keep == {i \in 1..Len(arr) : \A j \in 1..(i - 1) : arr[j] # arr[i]}
        RECURSIVE From(_)
        From(i) == IF i > Len(arr) THEN <<>>
                   ELSE (IF i \in keep THEN <<arr[i]>> ELSE <<>>) \o From(i + 1)
    IN  From(1)

\* variant: the last page is not pushed after the middle part
getPageNumbersNoLast(current, total) ==
    IF total <= 7 THEN [i \in 1..total |-> PageToken(i)]
    ELSE LET middle ==
               IF current <= 3
               THEN <<PageToken(2), PageToken(3)>>
                      \o (IF current < 3 THEN <<Ellipsis("ellipsis-next")>> ELSE <<>>)
               ELSE IF current >= total - 2
               THEN <<Ellipsis("ellipsis-prev")>>
                      \o [i \in 1..4 |-> PageToken(total - 5 + i)]
               ELSE <<Ellipsis("ellipsis-prev"), PageToken(current - 1),
                      PageToken(current), PageToken(current + 1),
                      Ellipsis("ellipsis-next")>>
         IN  Dedupe(<<PageToken(1)>> \o middle)

getPageNumbers(current, total) ==
    IF total <= 7 THEN [i \in 1..total |-> PageToken(i)]
    ELSE LET middle ==
               IF current <= 3
               THEN <<PageToken(2), PageToken(3)>>
                      \o (IF current < 3 THEN <<Ellipsis("ellipsis-next")>> ELSE <<>>)
               ELSE IF current >= total - 2
               THEN <<Ellipsis("ellipsis-prev")>>
                      \o [i \in 1..4 |-> PageToken(total - 5 + i)]
               ELSE <<Ellipsis("ellipsis-prev"), PageToken(current - 1),
                      PageToken(current), PageToken(current + 1),
                      Ellipsis("ellipsis-next")>>
         IN  Dedupe(<<PageToken(1)>> \o middle \o <<PageToken(total)>>)

\* the page numbers rendered as links
PageLinks(current, total) ==
    LET tokens == getPageNumbers(current, total)
    IN  {tokens[i].page : i \in {j \in 1..Len(tokens) : "page" \in DOMAIN tokens[j]}}

(***************************************************************************)
(* Client: the store actions and the page component                        *)
(***************************************************************************)
\* the bound of the page counter
MaxPage == 3

\* records as the API returns them: NULL, empty and non-empty categories
ClientPool == {RepositoryResponse(r) : r \in {RowExample, RowP9, RowP10}}

\* the lists a fetch of /repositories can deliver: distinct records, any order
FetchedLists == UNION {Arrangements(S) : S \in SUBSET ClientPool}

SearchTerms == {<<>>, <<" ">>, <<"S", "d">>}
UniversityChoices == {{}, {T_UCSD}, {T_UC_Berkeley, T_UCLA}}
LanguageChoices == {{}, {T_empty, T_Python}}
LicenseChoices == {{}, {T_MIT}}
OwnerChoices == {{}, {T_empty, T_ucsd}}
TopicChoices == {{}, {T_ML}}
PageSizes == {1, 2, DefaultPageSize}

\* the effect "Reset page when filters change": its dependency list is
\* [searchTerm, universitiesSelected, languagesSelected, licensesSelected,
\*  ownersSelected]; a setter call stores a new array, a new term is a new value
ResetPage == page' = 1

\* useQuery(['repositories']) delivers the fetched list, and the effect
\* "Update Zustand store when data is fetched" runs on the new data:
\* if (repositories && repositories.length > 0) setRepositories(repositories)
FetchRepositories(list) ==
    /\ repositories' = list
    /\ store_repositories' = IF Len(list) > 0 THEN list ELSE store_repositories
    /\ UNCHANGED <<serverVars, fetchedPages, query, searchTerm, universitiesSelected, languagesSelected,
                   licensesSelected, ownersSelected, topicsSelected, page, pageSize>>

setSearchTerm(term) ==
    /\ searchTerm' = term
    /\ IF term # searchTerm THEN ResetPage ELSE page' = page
    /\ UNCHANGED <<serverVars, fetchedPages, query, repositories, store_repositories, universitiesSelected, languagesSelected,
                   licensesSelected, ownersSelected, topicsSelected, pageSize>>

setUniversitiesSelected(selected) ==
    /\ universitiesSelected' = selected
    /\ ResetPage
    /\ UNCHANGED <<serverVars, fetchedPages, query, repositories, store_repositories, searchTerm, languagesSelected,
                   licensesSelected, ownersSelected, topicsSelected, pageSize>>

setLanguagesSelected(selected) ==
    /\ languagesSelected' = selected
    /\ ResetPage
    /\ UNCHANGED <<serverVars, fetchedPages, query, repositories, store_repositories, searchTerm, universitiesSelected,
                   licensesSelected, ownersSelected, topicsSelected, pageSize>>

setLicensesSelected(selected) ==
    /\ licensesSelected' = selected
    /\ ResetPage
    /\ UNCHANGED <<serverVars, fetchedPages, query, repositories, store_repositories, searchTerm, universitiesSelected,
                   languagesSelected, ownersSelected, topicsSelected, pageSize>>

setOwnersSelected(selected) ==
    /\ ownersSelected' = selected
    /\ ResetPage
    /\ UNCHANGED <<serverVars, fetchedPages, query, repositories, store_repositories, searchTerm, universitiesSelected,
                   languagesSelected, licensesSelected, topicsSelected, pageSize>>

\* topicsSelected is not a dependency of the reset effect
setTopicsSelected(selected) ==
    /\ topicsSelected' = selected
    /\ UNCHANGED <<serverVars, fetchedPages, query, repositories, store_repositories, searchTerm, universitiesSelected,
                   languagesSelected, licensesSelected, ownersSelected, page, pageSize>>

setPageSize(size) ==
    /\ pageSize' = size
    /\ UNCHANGED <<serverVars, fetchedPages, query, repositories, store_repositories, searchTerm, universitiesSelected,
                   languagesSelected, licensesSelected, ownersSelected, topicsSelected,
                   page>>

setPage(p) ==
    /\ page' = p
    /\ UNCHANGED <<serverVars, fetchedPages, query, repositories, store_repositories, searchTerm, universitiesSelected,
                   languagesSelected, licensesSelected, ownersSelected, topicsSelected,
                   pageSize>>

\* onClick={() => setPage(page - 1)}; aria-disabled does not stop the handler.
\* The page counter is kept within 0..MaxPage.
PaginationPrevious == page > 0 /\ setPage(page - 1)

\* onClick={() => setPage(page + 1)}
PaginationNext == page < MaxPage /\ setPage(page + 1)

\* onClick={() => setPage(pageNum)} on a rendered page number
PaginationLink == \E pageNum \in PageLinks(page, totalPages) : setPage(pageNum)

ClientServerInit ==
    /\ db = {}
    /\ pc = "idle"
    /\ request = NoRequest
    /\ response = NoResponse
    /\ open_sessions = 0

InitClient == ClientServerInit /\ ClientInit

NextClient ==
    \/ \E list \in FetchedLists : FetchRepositories(list)
    \/ \E term \in SearchTerms : setSearchTerm(term)
    \/ \E selected \in UniversityChoices : setUniversitiesSelected(selected)
    \/ \E selected \in LanguageChoices : setLanguagesSelected(selected)
    \/ \E selected \in LicenseChoices : setLicensesSelected(selected)
    \/ \E selected \in OwnerChoices : setOwnersSelected(selected)
    \/ \E selected \in TopicChoices : setTopicsSelected(selected)
    \/ \E size \in PageSizes : setPageSize(size)
    \/ PaginationPrevious
    \/ PaginationNext
    \/ PaginationLink

SpecClient == InitClient /\ [][NextClient]_vars

(***************************************************************************)
(* Properties: Query Service                                               *)
(***************************************************************************)
Dimensions == {"university", "language", "license", "owner", "topic_area_ai"}

IsList == request.handler \in {"list_repositories", "list_repositories_optimized"}
IsGet == request.handler \in {"get_repository", "get_repository_validated"}

\* the names of the records of the response, in order
BodyNames == [i \in 1..Len(response.body) |-> response.body[i].full_name]

\* C1: whatever the database and the parameters, every record of a list response
\* is a stored row whose approved flag is true.
C1_ListOnlyApproved ==
    IsList =>
        \A i \in 1..Len(response.body) :
            \E r \in db : r.full_name = response.body[i].full_name /\ r.approved = "true"

\* C1 case: a database holding a row that is not approved, listed with no filter.
C1_Witness ==
    /\ request.handler = "list_repositories"
    /\ request.params = DefaultRequest
    /\ \E r \in db : r.approved = "false"
    /\ \E r \in db : r.approved = "null"
    /\ Len(response.body) >= 2

\* C2: a lookup with a non-empty owner and repo answers 200 with the record named
\* owner/repo exactly when that row exists and is approved, and 404 with no
\* record in every other case.
C2_GetFoundIffApproved ==
    (IsGet /\ request.params.owner # <<>> /\ request.params.repo # <<>>) =>
        LET full_name == FullNameOf(request.params.owner, request.params.repo)
        IN  IF \E r \in db : r.full_name = full_name /\ r.approved = "true"
            THEN /\ response.status = 200
                 /\ Len(response.body) = 1
                 /\ response.body[1].full_name = full_name
            ELSE /\ response.status = 404
                 /\ response.body = <<>>

\* C7: for each categorical parameter that carries a value, the field of every
\* returned record is one of the requested values (and is not NULL).
C7_CategoricalMembership ==
    (IsList /\ response.status = 200) =>
        \A dim \in Dimensions \cap DOMAIN request.params :
            request.params[dim] # {} =>
                \A i \in 1..Len(response.body) :
                    /\ response.body[i][dim] # NULL
                    /\ response.body[i][dim] \in request.params[dim]

\* C7 case: university=["UC Berkeley"] against approved rows of another campus
\* and of no campus.
C7_Witness ==
    /\ request.handler = "list_repositories"
    /\ request.params.university = {T_UC_Berkeley}
    /\ \E r \in db : r.approved = "true" /\ r.university = T_UCSD
    /\ \E r \in db : r.approved = "true" /\ r.university = NULL
    /\ Len(response.body) >= 1

\* the approved rows that satisfy every requested filter of a list request
Requested(req) ==
    {r \in db :
        /\ r.approved = "true"
        /\ \A dim \in Dimensions : req[dim] # {} => r[dim] \in req[dim]
        /\ (req.q # NULL /\ req.q # <<>>) =>
              \E col \in {"full_name", "description"} :
                  ilike(r[col], <<"%">> \o Lower(req.q) \o <<"%">>)}

C9_LimitOffsetValidated ==
    request.handler = "list_repositories" =>
        LET limit == request.params.limit
            offset == request.params.offset
            bad == \/ limit # NoInt /\ (limit[1] < 1 \/ limit[1] > 100)
                   \/ offset # NoInt /\ offset[1] < 0
        IN  /\ bad => (response.status = 422 /\ response.body = <<>>)
            /\ (limit = <<100>> /\ ~bad) => response.status = 200

\* C9 case: limit=0 against a database with approved rows.
C9_Witness ==
    /\ request.handler = "list_repositories"
    /\ request.params.limit = <<0>>
    /\ \E r \in db : r.approved = "true"
    /\ response.status = 422

\* C10: a list response never holds more than 100 records.
C10_AtMost100 == IsList => Len(response.body) <= 100

(***************************************************************************)
(* Properties: Filter Engine and Paginator                                 *)
(***************************************************************************)
Selected ==
    [university |-> universitiesSelected, language |-> languagesSelected,
     license |-> licensesSelected, owner |-> ownersSelected,
     topic_area_ai |-> topicsSelected]

Input == IF repositories = UNDEFINED THEN <<>> ELSE repositories

\* the record has, for every dimension with a selection, a value (not null, not
\* empty) that is one of the selected values
Passes(r) ==
    \A dim \in Dimensions :
        Selected[dim] # {} => (r[dim] # NULL /\ r[dim] # <<>> /\ r[dim] \in Selected[dim])

Sound(output) ==
    \A i \in 1..Len(output) :
        /\ \E j \in 1..Len(Input) : Input[j] = output[i]
        /\ \A dim \in Dimensions :
              Selected[dim] # {} => (output[i][dim] # NULL /\ output[i][dim] \in Selected[dim])

\* C3: every record a filteredRepositories listing yields is a record of the
\* input whose field, for each dimension with a selection, is present and selected.
C3_FilterSound == Sound(filteredRepositories) /\ Sound(filteredRepositoriesGuide)

RECURSIVE PagesUpTo(_)
PagesUpTo(n) ==
    IF n = 0 THEN <<>>
    ELSE PagesUpTo(n - 1) \o Paginator(filteredRepositories, n, pageSize)

\* C5: the pages 1..totalPages, one after the other, are the filtered sequence.
C5_PagesReconstruct == PagesUpTo(totalPages) = filteredRepositories

\* C5 case: three items in pages of two (a full page and a partial one).
C5_Witness == Len(filteredRepositories) = 3 /\ pageSize = 2

\* C6: totalPages is the least number t >= 1 with t * pageSize >= the item
\* count (max(1, ceil(n / pageSize))); no item gives one page, which is empty.
C6_TotalPages ==
    /\ totalPages >= 1
    /\ totalPages * pageSize >= totalItems
    /\ totalPages > 1 => (totalPages - 1) * pageSize < totalItems
    /\ totalItems = 0 =>
          (totalPages = 1 /\ Paginator(filteredRepositories, 1, pageSize) = <<>>)

\* C6 case: a fetched list of which the filters keep nothing.
C6_Witness ==
    /\ repositories # UNDEFINED
    /\ Len(repositories) = 3
    /\ totalItems = 0
    /\ pageSize = 2

(***************************************************************************)
(* Properties: sorting                                                     *)
(***************************************************************************)
SortFields == {"stargazers_count", "forks_count", "created_at"}

C12_UnknownSortRejected ==
    (request.handler = "list_repositories" /\ request.params.sort \notin SortFields) =>
        (response.status = 400 /\ response.body = <<>>)

\* the number a count column's text denotes
RECURSIVE Number(_)
Number(t) ==
    IF t = <<>> THEN 0 ELSE 10 * Number(SubSeq(t, 1, Len(t) - 1)) + CharRank(t[Len(t)])

\* C13: with sort=stargazers_count the star counts of adjacent records of the
\* response, taken as numbers, do not increase with order=desc and do not
\* decrease with order=asc.
C13_OrderedByStarCount ==
    (/\ request.handler = "list_repositories"
     /\ response.status = 200
     /\ request.params.sort = "stargazers_count"
     /\ request.params.order \in {"desc", "asc"}) =>
        \A i \in 1..(Len(response.body) - 1) :
            LET a == response.body[i].stargazers_count
                b == response.body[i + 1].stargazers_count
            IN  (a # NULL /\ b # NULL) =>
                    IF request.params.order = "desc"
                    THEN Number(a) >= Number(b)
                    ELSE Number(a) <= Number(b)

(***************************************************************************)
(* An API caller paging through GET /repositories: the same request with   *)
(* limit=L and offset=0, L, 2L, ... until a page comes back empty.  Each    *)
(* page is one execution of list_repositories' statement on the unchanged  *)
(* database; rows that tie on the sort column come in whatever order that  *)
(* execution produces.                                                     *)
(***************************************************************************)
PagingLimits == {<<LimitMin>>, <<LimitMin + 1>>}

PagingRequests ==
    {[DefaultRequest EXCEPT !.sort = s, !.order = d, !.limit = l, !.offset = <<k * l[1]>>] :
        s \in {"stargazers_count", "forks_count"}, d \in {"desc", "asc"},
        l \in PagingLimits, k \in 0..Cardinality(Pool)}

fetch_page(req) ==
    /\ ~ValidationError(req)
    /\ \/ /\ fetchedPages = <<>>
          /\ pc = "idle"
          /\ req.offset = <<0>>
       \/ /\ fetchedPages # <<>>
          /\ pc = "done"
          /\ fetchedPages[Len(fetchedPages)] # <<>>
          /\ req = [request.params EXCEPT !.offset = <<Len(fetchedPages) * req.limit[1]>>]
    /\ request' = [handler |-> "list_repositories", params |-> req]
    /\ response' \in ListResponses(db, req)
    /\ fetchedPages' = Append(fetchedPages, response'.body)
    /\ pc' = "done"
    /\ open_sessions' = get_session(open_sessions, response')
    /\ UNCHANGED <<db, clientVars>>

InitPaging == Init

NextPaging == \E req \in PagingRequests : fetch_page(req)

SpecPaging == InitPaging /\ [][NextPaging]_vars

RECURSIVE Flatten(_)
Flatten(seqs) == IF seqs = <<>> THEN <<>> ELSE Head(seqs) \o Flatten(Tail(seqs))

\* the names of the records of all the pages fetched so far, in order
FetchedNames ==
    LET all == Flatten(fetchedPages) IN [i \in 1..Len(all) |-> all[i].full_name]

\* C14: paging with a fixed limit over an unchanged database never delivers a
\* record on two pages, and once the empty page has come the pages together
\* hold every matching approved row exactly once.
C14_PagingExactlyOnce ==
    /\ \A i, j \in 1..Len(FetchedNames) : FetchedNames[i] = FetchedNames[j] => i = j
    /\ (fetchedPages # <<>> /\ fetchedPages[Len(fetchedPages)] = <<>>) =>
          {FetchedNames[i] : i \in 1..Len(FetchedNames)}
              = {r.full_name : r \in Requested(request.params)}

(***************************************************************************)
(* Properties: search                                                      *)
(***************************************************************************)
\* sub occurs in text, letter case ignored (a missing text contains nothing)
Contains(text, sub) ==
    /\ text # NULL
    /\ \E i \in 1..(Len(text) - Len(sub) + 1) :
          Lower(SubSeq(text, i, i + Len(sub) - 1)) = Lower(sub)

\* C15: with a non-empty q every record of the list response contains q,
\* case-insensitively, in its full_name or in the description it is returned with.
C15_SearchMatchesReturned ==
    (/\ request.handler = "list_repositories"
     /\ response.status = 200
     /\ Truthy(request.params.q)) =>
        \A i \in 1..Len(response.body) :
            \/ Contains(response.body[i].full_name, request.params.q)
            \/ Contains(response.body[i].description, request.params.q)

(***************************************************************************)
(* Properties: Query Service against Filter Engine                          *)
(***************************************************************************)
\* the rows of a set as a list (the set of records kept does not depend on
\* which list)
RECURSIVE AsList(_)
AsList(rows) ==
    IF rows = {} THEN <<>>
    ELSE LET r == CHOOSE m \in rows : TRUE IN <<r>> \o AsList(rows \ {r})

\* the approved records the Filter Engine keeps from the stored rows under the
\* selection of a list request, with no search term
KeptByFilterEngine(rows, req) ==
    LET kept == FilterEngine(AsList(rows), <<>>, req.university, req.language,
                             req.license, req.owner, req.topic_area_ai)
    IN  {kept[i].full_name : i \in {j \in 1..Len(kept) : kept[j].approved = "true"}}

\* C16: with no search term, no limit and no offset, list returns the same set
\* of records as the Filter Engine keeps, among the approved ones, from the
\* stored records under the same selection, null and empty fields included.
C16_ServerEqualsClient ==
    (/\ request.handler = "list_repositories"
     /\ response.status = 200
     /\ ~Truthy(request.params.q)
     /\ request.params.limit = NoInt
     /\ request.params.offset = NoInt) =>
        {BodyNames[i] : i \in 1..Len(BodyNames)} = KeptByFilterEngine(db, request.params)

(***************************************************************************)
(* Properties: distinct values                                             *)
(***************************************************************************)
\* C17: a distinct-values response has no value twice, is in ascending order,
\* and holds exactly the values its dimension takes on approved rows; a value
\* found only on rows that are not approved is not in it.
C17_DistinctSortedApproved ==
    request.handler = "distinct_values" =>
        LET dim == DimensionOf[request.params.endpoint]
            out == response.body
        IN  /\ response.status = 200
            /\ \A i, j \in 1..Len(out) : i < j => (out[i] # out[j] /\ StrLess(out[i], out[j], 1))
            /\ {out[i] : i \in 1..Len(out)}
                  = {r[dim] : r \in {m \in db : m.approved = "true" /\ m[dim] # NULL}}
            /\ \A r \in db :
                  (r.approved # "true" /\ ~\E m \in db : m.approved = "true" /\ m[dim] = r[dim])
                      => ~\E i \in 1..Len(out) : out[i] = r[dim]

\* C17 case: /universities over approved rows of UC Berkeley, of UCSD and of no
\* university, an unapproved UCLA row and an unapproved UC Berkeley row.
C17_Witness ==
    /\ request.handler = "distinct_values"
    /\ request.params.endpoint = "universities"
    /\ db = {RowExample, RowP9, RowP10, RowDraft, RowUnset}
    /\ response.body = <<T_UC_Berkeley, T_UCSD>>

(***************************************************************************)
(* Client: the "Check Search Implementation" listing of the troubleshooting *)
(* guide (the search alone, on the fetched list, with a raised limit)      *)
(***************************************************************************)
\* limit: 100
FuzzyLimitIncreased == 100

FilterEngineSearchOnly(repos, term) ==
    IF repos = UNDEFINED THEN <<>>
    ELSE IF trim(term) # <<>> THEN fuzzysort_go(term, repos, FuzzyLimitIncreased)
    ELSE repos

filteredRepositoriesSearchOnly == FilterEngineSearchOnly(repositories, searchTerm)

(***************************************************************************)
(* The client over the catalogue of LimitMax + 1 rows: the first n records *)
(* bulk/1 .. bulk/n as the fetched list, a term, a university selection    *)
(***************************************************************************)
\* the records bulk/lo .. bulk/hi as the API returns them
RECURSIVE BulkRange(_, _)
BulkRange(lo, hi) ==
    IF lo > hi THEN <<>>
    ELSE IF lo = hi THEN <<RepositoryResponse(BulkRow(lo))>>
    ELSE LET mid == (lo + hi) \div 2 IN BulkRange(lo, mid) \o BulkRange(mid + 1, hi)

BulkList(n) == BulkRange(1, n)

\* the fetched lists of the large catalogue
BulkLists == {BulkList(n) : n \in 0..(LimitMax + 1)}

BulkSearchTerms == {<<>>, <<"b">>, <<"b", "9">>}

InitClientBulk == ClientServerInit /\ ClientInit

NextClientBulk ==
    \/ \E list \in BulkLists : FetchRepositories(list)
    \/ \E term \in BulkSearchTerms : setSearchTerm(term)
    \/ \E selected \in UniversityChoices : setUniversitiesSelected(selected)

SpecClientBulk == InitClientBulk /\ [][NextClientBulk]_vars

\* the output is within the cap and holds only records that pass every active
\* categorical filter
CappedAndFiltered(output) ==
    /\ Len(output) <= FuzzyLimit
    /\ \A i \in 1..Len(output) : Passes(output[i])

\* C19: with a non-empty trimmed term a filteredRepositories listing yields at
\* most 50 records, each of which passes every active categorical filter.
C19_SearchCappedAfterFilters ==
    trim(searchTerm) # <<>> =>
        /\ CappedAndFiltered(filteredRepositories)
        /\ CappedAndFiltered(filteredRepositoriesSearchOnly)

(***************************************************************************)
(* The page-number display over lists of up to MaxItems records: the page  *)
(* size and the fetched list give totalPages, the rendered page links move *)
(* the current page                                                        *)
(***************************************************************************)
\* the bound of the length of the fetched list
MaxItems == 12

PagerLists == {BulkList(n) : n \in 0..MaxItems}

InitPager == ClientServerInit /\ ClientInit

NextPager ==
    \/ \E list \in PagerLists : FetchRepositories(list)
    \/ \E size \in PageSizes : setPageSize(size)
    \/ PaginationLink

SpecPager == InitPager /\ [][NextPager]_vars

pageNumbers == getPageNumbers(page, totalPages)

\* C20: for a current page within 1..totalPages the tokens of getPageNumbers
\* include page 1 and page totalPages, their page numbers strictly ascend,
\* and no token, page number or gap marker, occurs twice.
C20_PageNumbersWellFormed ==
    (1 <= page /\ page <= totalPages) =>
        LET isPage(i) == "page" \in DOMAIN pageNumbers[i]
            idx == 1..Len(pageNumbers)
        IN  /\ \E i \in idx : pageNumbers[i] = PageToken(1)
            /\ \E i \in idx : pageNumbers[i] = PageToken(totalPages)
            /\ \A i, j \in idx :
                  (i < j /\ isPage(i) /\ isPage(j)) => pageNumbers[i].page < pageNumbers[j].page
            /\ \A i, j \in idx : i # j => pageNumbers[i] # pageNumbers[j]

\* C20 case: more than seven pages, the current page far from both ends, so
\* that both gap markers are shown.
C20_Witness ==
    /\ totalPages > 7
    /\ page > 3
    /\ page < totalPages - 2
    /\ Len(pageNumbers) = 7

(***************************************************************************)
(* Properties: page-number display, gaps and neighbours                     *)
(***************************************************************************)
\* C21: for a current page within 1..totalPages, two page numbers of
\* getPageNumbers with no page number between them in the output that differ
\* by more than 1 have a gap marker between them.
C21_GapsAreMarked ==
    (1 <= page /\ page <= totalPages) =>
        LET isPage(i) == "page" \in DOMAIN pageNumbers[i]
            idx == 1..Len(pageNumbers)
        IN  \A i, j \in idx :
                (/\ i < j
                 /\ isPage(i)
                 /\ isPage(j)
                 /\ \A k \in (i + 1)..(j - 1) : ~isPage(k)
                 /\ pageNumbers[j].page - pageNumbers[i].page > 1)
                    => \E k \in (i + 1)..(j - 1) : "gap" \in DOMAIN pageNumbers[k]

\* C30: for a current page within 1..totalPages the page links of
\* getPageNumbers include the current page and each of the pages current - 1
\* and current + 1 that exist.
C30_NeighboursLinked ==
    (1 <= page /\ page <= totalPages) =>
        \A p \in {page - 1, page, page + 1} :
            (1 <= p /\ p <= totalPages) => p \in PageLinks(page, totalPages)

(***************************************************************************)
(* Properties: page bounds                                                 *)
(***************************************************************************)
\* C22: a page number above totalPages yields the empty sequence, and every
\* page of 1..totalPages yields at most pageSize items.
C22_PageBounds ==
    /\ page > totalPages => pagedRepositories = <<>>
    /\ \A p \in (totalPages + 1)..(MaxPage + 1) :
          Paginator(filteredRepositories, p, pageSize) = <<>>
    /\ \A p \in 1..totalPages : Len(Paginator(filteredRepositories, p, pageSize)) <= pageSize

\* C22 case: two items in pages of one, the current page being the third.
C22_Witness ==
    /\ Len(filteredRepositories) = 2
    /\ pageSize = 1
    /\ totalPages = 2
    /\ page = 3

(***************************************************************************)
(* Properties: page reset                                                  *)
(***************************************************************************)
filterInputs ==
    <<searchTerm, universitiesSelected, languagesSelected, licensesSelected,
      ownersSelected, topicsSelected>>

\* C23: every step that changes a filter input (the search term or the
\* selection of one of the five dimensions) leaves the current page at 1.
C23_FilterChangeResetsPage == [][filterInputs' # filterInputs => page' = 1]_vars

\* C24: in every state of the repositories page the current page is within
\* 1..totalPages, and the page shown is not empty while the filtered list is
\* not empty.
C24_PageWithinRange ==
    /\ 1 <= page
    /\ page <= totalPages
    /\ totalItems > 0 => pagedRepositories # <<>>

(***************************************************************************)
(* Properties: Catalog Store                                               *)
(***************************************************************************)
\* C25: once a fetch of the repository list has succeeded, the store's
\* repositories are exactly the list the latest fetch delivered, an empty
\* list included; nothing of an older snapshot is left.
C25_StoreIsFetchedList ==
    repositories # UNDEFINED => store_repositories = repositories

(***************************************************************************)
(* Client: the queries of React Query (useQuery).  One cache entry is       *)
(* followed at a time: the repository list under the QueryClient's default *)
(* retry, the repository list of the error-handling listing (its own retry *)
(* function), or the repository detail (retry: false).  A query key has    *)
(* one cache entry; a component that uses a key whose fetch is in flight   *)
(* observes that fetch.                                                    *)
(***************************************************************************)
QueryNames == {"repositories", "repositories_handled", "repository"}

\* what the network request of a queryFn ends with: an HTTP status, or 0 for
\* a request that got no response
FailureOutcomes == {0, 400, 404, 422, 500}

T_Failed_to_fetch == <<"F", "a", "i", "l", "e", "d", " ", "t", "o", " ", "f", "e", "t", "c", "h">>
T_Failed_to_fetch_repositories == <<"F", "a", "i", "l", "e", "d", " ", "t", "o", " ", "f", "e", "t", "c", "h", " ", "r", "e", "p", "o", "s", "i", "t", "o", "r", "i", "e", "s">>
T_Failed_to_fetch_repository == <<"F", "a", "i", "l", "e", "d", " ", "t", "o", " ", "f", "e", "t", "c", "h", " ", "r", "e", "p", "o", "s", "i", "t", "o", "r", "y">>
T_Repository_not_found == <<"R", "e", "p", "o", "s", "i", "t", "o", "r", "y", " ", "n", "o", "t", " ", "f", "o", "u", "n", "d">>

\* String.prototype.includes
includes(text, sub) ==
    \E i \in 1..(Len(text) - Len(sub) + 1) : SubSeq(text, i, i + Len(sub) - 1) = sub

\* the message of the Error a queryFn rejects with
QueryFnError(name, outcome) ==
    IF outcome = 0 THEN T_Failed_to_fetch
    ELSE IF name = "repository"
    THEN (IF outcome = 404 THEN T_Repository_not_found ELSE T_Failed_to_fetch_repository)
    ELSE T_Failed_to_fetch_repositories

\* return failureCount < 3
RetryLimit == 3

\* variant: the comparison written failureCount <= 3
DefaultRetryInclusive(failureCount, error) ==
    IF includes(error, <<"4", "0", "4">>) THEN FALSE ELSE failureCount <= RetryLimit

\* QueryClient defaultOptions.queries.retry
DefaultRetry(failureCount, error) ==
    IF includes(error, <<"4", "0", "4">>) THEN FALSE ELSE failureCount < RetryLimit

\* the retry function of the repository list in "Query Error Handling"
HandledRetry(failureCount, error) ==
    IF includes(error, <<"4">>) THEN FALSE ELSE failureCount < RetryLimit

\* the retry option in force for a query
ShouldRetry(name, failureCount, error) ==
    CASE name = "repositories" -> DefaultRetry(failureCount, error)
      [] name = "repositories_handled" -> HandledRetry(failureCount, error)
      [] OTHER -> FALSE

\* the bound of the components that use one query key at the same time
MaxObservers == 2

NewQuery(name) ==
    [key |-> name, status |-> "fetching", observers |-> 1, inflight |-> 1,
     failureCount |-> 0, retries |-> 0, outcome |-> 200, error |-> NULL]

\* variant: every component that uses the key starts its own request
useQueryNoDedupe(name) ==
    /\ \/ /\ query = NoQuery
          /\ query' = NewQuery(name)
       \/ /\ query # NoQuery
          /\ query.key = name
          /\ query.observers < MaxObservers
          /\ query' = [query EXCEPT !.observers = @ + 1, !.inflight = @ + 1]
    /\ UNCHANGED <<serverVars, fetchedPages, repositories, store_repositories, searchTerm,
                   universitiesSelected, languagesSelected, licensesSelected,
                   ownersSelected, topicsSelected, page, pageSize>>

\* a component renders useQuery({queryKey, queryFn}): the first use of the key
\* creates the cache entry and starts the fetch; a later use observes the
\* entry, and starts no request while its fetch is in flight or has an answer
useQuery(name) ==
    /\ \/ /\ query = NoQuery
          /\ query' = NewQuery(name)
       \/ /\ query # NoQuery
          /\ query.key = name
          /\ query.observers < MaxObservers
          /\ query' = [query EXCEPT !.observers = @ + 1]
    /\ UNCHANGED <<serverVars, fetchedPages, repositories, store_repositories, searchTerm,
                   universitiesSelected, languagesSelected, licensesSelected,
                   ownersSelected, topicsSelected, page, pageSize>>

\* the request is answered 200: response.json() is the data
QuerySucceeds ==
    /\ query # NoQuery
    /\ query.status = "fetching"
    /\ query' = [query EXCEPT !.status = "success", !.inflight = @ - 1,
                              !.failureCount = 0, !.outcome = 200, !.error = NULL]
    /\ UNCHANGED <<serverVars, fetchedPages, repositories, store_repositories, searchTerm,
                   universitiesSelected, languagesSelected, licensesSelected,
                   ownersSelected, topicsSelected, page, pageSize>>

\* the request fails: the queryFn rejects, and the retry option is asked with
\* the number of failures before this one
QueryFails(outcome) ==
    /\ query # NoQuery
    /\ query.status = "fetching"
    /\ LET error == QueryFnError(query.key, outcome)
       IN  query' =
             IF ShouldRetry(query.key, query.failureCount, error)
             THEN [query EXCEPT !.status = "retrying", !.inflight = @ - 1,
                                !.failureCount = @ + 1, !.outcome = outcome, !.error = error]
             ELSE [query EXCEPT !.status = "error", !.inflight = @ - 1,
                                !.outcome = outcome, !.error = error]
    /\ UNCHANGED <<serverVars, fetchedPages, repositories, store_repositories, searchTerm,
                   universitiesSelected, languagesSelected, licensesSelected,
                   ownersSelected, topicsSelected, page, pageSize>>

\* the retry delay is over: the queryFn runs again
QueryRetries ==
    /\ query # NoQuery
    /\ query.status = "retrying"
    /\ query' = [query EXCEPT !.status = "fetching", !.inflight = @ + 1, !.retries = @ + 1]
    /\ UNCHANGED <<serverVars, fetchedPages, repositories, store_repositories, searchTerm,
                   universitiesSelected, languagesSelected, licensesSelected,
                   ownersSelected, topicsSelected, page, pageSize>>

\* onRetry={() => refetch()}: the user asks for the data again
refetch ==
    /\ query # NoQuery
    /\ query.status \in {"error", "success"}
    /\ query' = [query EXCEPT !.status = "fetching", !.inflight = @ + 1,
                              !.failureCount = 0, !.retries = 0]
    /\ UNCHANGED <<serverVars, fetchedPages, repositories, store_repositories, searchTerm,
                   universitiesSelected, languagesSelected, licensesSelected,
                   ownersSelected, topicsSelected, page, pageSize>>

InitQuery == ClientServerInit /\ ClientInit

NextQuery ==
    \/ \E name \in QueryNames : useQuery(name)
    \/ QuerySucceeds
    \/ \E outcome \in FailureOutcomes : QueryFails(outcome)
    \/ QueryRetries
    \/ refetch

SpecQuery == InitQuery /\ [][NextQuery]_vars

\* C26: a fetch that failed with a 404, 400 or 422 response is not retried:
\* after such a failure the query is in the error state, whichever of the
\* three queries it is.
C26_NoRetryOnClientError ==
    (query # NoQuery /\ query.outcome \in {400, 404, 422}) =>
        query.status \notin {"retrying"} /\ query.retries = 0

\* the requests made for the query since the user last asked for it
RetryBounded ==
    query # NoQuery =>
        /\ query.retries <= 3
        /\ query.failureCount <= 3
        /\ query.status = "retrying" => query.retries < 3
        /\ query.status = "error" => query.inflight = 0

\* C27: a query is retried at most 3 times after its first request, a retry
\* is pending only while fewer than 3 have been made, a query in the error
\* state has no request in flight, and from the error state a request is
\* started by refetch() alone.
C27_RetryBounded ==
    /\ []RetryBounded
    /\ [][(query # NoQuery /\ query.status = "error" /\ query'.inflight > query.inflight)
            => refetch]_vars

\* C27 case: the repository list failing with a server error four times:
\* three retries made, the query in the error state.
C27_Witness ==
    /\ query # NoQuery
    /\ query.key = "repositories"
    /\ query.outcome = 500
    /\ query.retries = 3
    /\ query.status = "error"

InitSession == Init

NextSession ==
    \/ \E owner \in PathOwners, repo \in PathRepos : get_repository(owner, repo)
    \/ \E owner \in PathOwners, repo \in PathRepos : get_repository_storage_failure(owner, repo)
    \/ Respond

SpecSession == InitSession /\ [][NextSession]_vars

\* C29: when a request has ended, with a 200 response, a 400 or 404
\* HTTPException or a storage failure, and while the service waits for the
\* next request, no storage session is open.
C29_SessionReleased ==
    /\ pc = "done" => response.status \in {200, 400, 404, 500} /\ open_sessions = 0
    /\ pc = "idle" => open_sessions = 0

\* C29 case: a request that ended with a storage failure.
C29_Witness ==
    /\ pc = "done"
    /\ request.handler = "get_repository"
    /\ response.status = 500
    /\ open_sessions = 0
====
